---- MODULE Spec2Model ----
(***************************************************************************)
(* TaskScheduler of src/src/utils/schedule.ts as a state machine.          *)
(*                                                                         *)
(* The two maps of the class (tasks, scheduledJobs) are functions whose    *)
(* DOMAIN is the set of keys present.  `timers` is the runtime's set of    *)
(* outstanding setTimeout timers (armed, not fired, not cleared); each one *)
(* holds the closure of line 144: the task name and the captured task      *)
(* object.  Time is counted in minutes.  A value that may be null is a     *)
(* sequence of length 0 (null) or 1.                                       *)
(***************************************************************************)
EXTENDS Integers, FiniteSets, Sequences, TLC

VARIABLES now, tasks, scheduledJobs, timers, dispatch, nextObj, pausedTasks,
          invoked, last

vars == <<now, tasks, scheduledJobs, timers, dispatch, nextObj, pausedTasks,
          invoked, last>>

(* ------------------------------ bounds --------------------------------- *)
\* The clock runs from 0 to MaxTime minutes.
MaxTime == 1
\* At most MaxTasks task objects are created (line 23) in one behaviour.
MaxTasks == 2

(* ------------------------- program constants --------------------------- *)
MinutesPerHour == 60
MinutesPerDay == 1440

Names == {"a", "b"}
Callbacks == {"f"}
\* Dates handed to scheduleOnce.
Dates == {1, MaxTime + 1}

\* Interval values handed to scheduleTask: recurring-by-unit ones, one with
\* a unit the switch of _calculateNextRun does not know, and one that has
\* none of the three shapes (no `value`).  Hours and days differ from
\* minutes by the factor of addHours / addDays only and are not enumerated.
UnitIntervals ==
  { [unit |-> "minutes", value |-> 1],
    [unit |-> "minutes", value |-> 2],
    [unit |-> "weeks", value |-> 1],
    [unit |-> "minutes"] }

\* Cron expressions handed to scheduleCron: every minute, and one that does
\* not parse.
CronExpressions == {"*/1 * * * *", "not a cron"}

null == <<>>
Some(v) == <<v>>

(* ------------------------------ helpers -------------------------------- *)
\* Map.delete(k)
MapDelete(m, k) == [x \in (DOMAIN m) \ {k} |-> m[x]]
\* Map.set(k, v)
MapSet(m, k, v) == [x \in (DOMAIN m) \cup {k} |-> IF x = k THEN v ELSE m[x]]

\* The scheduler and the runtime's timers as one value.
World == [tasks |-> tasks, scheduledJobs |-> scheduledJobs, timers |-> timers]

\* An outcome of a call: the world after it and the error it threw ("none"
\* when it returned).
Ok(w) == [w |-> w, err |-> "none"]
Threw(w, e) == [w |-> w, err |-> e]

\* setTimeout returns a handle no live timer and no stored entry carries.
UsedIds(w) ==
  {t.id : t \in w.timers} \cup {w.scheduledJobs[n].id : n \in DOMAIN w.scheduledJobs}
FreshId(w) ==
  CHOOSE i \in 1..(Cardinality(UsedIds(w)) + 1) :
    i \notin UsedIds(w) /\ \A j \in 1..(i - 1) : j \in UsedIds(w)

\* clearTimeout(id): the timer, if still outstanding, will not fire.
clearTimeout(ts, id) == {t \in ts : t.id # id}

\* parseExpression(expr).next().toDate() of cron-parser: the next occurrence
\* strictly after t, or an exception for an expression that does not parse.
CronPeriod(expr) == IF expr = "*/1 * * * *" THEN 1 ELSE 2
CronParses(expr) == expr \in {"*/1 * * * *", "*/2 * * * *"}
CronNext(expr, t) == ((t \div CronPeriod(expr)) + 1) * CronPeriod(expr)

(* --------------------- schedule.ts, pure effects ----------------------- *)
\* The object of lines 23-28; obj is the identity of the object.
Task(cb, interval, options, obj) ==
  [callback |-> cb, interval |-> interval, options |-> options,
   status |-> "scheduled", obj |-> obj]

IsOnce(interval) == "type" \in DOMAIN interval /\ interval.type = "once"

\* addMinutes / addHours / addDays of date-fns.
addMinutes(t, v) == t + v
addHours(t, v) == t + v * MinutesPerHour
addDays(t, v) == t + v * MinutesPerDay

\* _calculateNextRun, lines 153-165: "none" and the date, or the error.
_calculateNextRun(interval, t) ==
  CASE interval.unit = "minutes" -> [err |-> "none", date |-> addMinutes(t, interval.value)]
    [] interval.unit = "hours" -> [err |-> "none", date |-> addHours(t, interval.value)]
    [] interval.unit = "days" -> [err |-> "none", date |-> addDays(t, interval.value)]
    [] OTHER -> [err |-> "UnsupportedUnit", date |-> t]

\* Lines 130-141: the next fire time of an interval at time t.
NextRunOf(interval, t) ==
  IF "next" \in DOMAIN interval
    THEN IF CronParses(interval.next)
           THEN [err |-> "none", date |-> CronNext(interval.next, t)]
           ELSE [err |-> "NextThrew", date |-> t]
  ELSE IF IsOnce(interval)
    THEN [err |-> "none", date |-> interval.date]
  ELSE IF "unit" \in DOMAIN interval /\ "value" \in DOMAIN interval
    THEN _calculateNextRun(interval, t)
  ELSE [err |-> "InvalidInterval", date |-> t]

\* setTimeout(cb, timeout) at time t: the timer is due once `timeout`
\* minutes have passed; a timeout of zero or less is due at once.
DueAt(t, timeout) == IF timeout > 0 THEN t + timeout ELSE t

\* _scheduleNextRun, lines 121-147, at time t.
_scheduleNextRun(w, taskName, t) ==
  IF taskName \notin DOMAIN w.tasks \/ w.tasks[taskName].status = "paused"
    THEN Ok(w)
  ELSE LET task == w.tasks[taskName]
           nextRun == NextRunOf(task.interval, t)
           timeout == nextRun.date - t
           timer == [id |-> FreshId(w), name |-> taskName,
                     task |-> [callback |-> task.callback, interval |-> task.interval,
                               options |-> task.options, obj |-> task.obj],
                     due |-> DueAt(t, timeout)]
       IN IF nextRun.err # "none"
            THEN Threw(w, nextRun.err)
            ELSE Ok([w EXCEPT !.timers = @ \cup {timer},
                              !.scheduledJobs = MapSet(@, taskName,
                                  [id |-> timer.id, scheduledTime |-> nextRun.date])])

\* scheduleTask without the check of lines 18-20: the name is overwritten.
scheduleTask_NoDuplicateCheck(w, taskName, cb, interval, options, t, obj) ==
  _scheduleNextRun(
    [w EXCEPT !.tasks = MapSet(@, taskName, Task(cb, interval, options, obj))],
    taskName, t)

\* scheduleTask, lines 12-34, at time t; obj is the identity of the new object.
scheduleTask(w, taskName, cb, interval, options, t, obj) ==
  IF taskName \in DOMAIN w.tasks
    THEN Threw(w, "AlreadyExists")
    ELSE _scheduleNextRun(
           [w EXCEPT !.tasks = MapSet(@, taskName, Task(cb, interval, options, obj))],
           taskName, t)

\* scheduleCron, lines 39-50.
scheduleCron(w, taskName, cb, cronExpression, t, obj) ==
  scheduleTask(w, taskName, cb, [next |-> cronExpression], "cron", t, obj)

\* scheduleOnce with `date < new Date()` on line 56: the current time passes.
scheduleOnce_AcceptsNow(w, taskName, cb, date, t, obj) ==
  IF date < t
    THEN Threw(w, "NotInFuture")
    ELSE scheduleTask(w, taskName, cb, [type |-> "once", date |-> date], "none", t, obj)

\* scheduleOnce, lines 55-62.
scheduleOnce(w, taskName, cb, date, t, obj) ==
  IF date <= t
    THEN Threw(w, "NotInFuture")
    ELSE scheduleTask(w, taskName, cb, [type |-> "once", date |-> date], "none", t, obj)

\* cancelTask without line 71: the timer-set entry stays.
cancelTask_KeepsJob(w, taskName) ==
  LET w1 == IF taskName \in DOMAIN w.scheduledJobs
              THEN [w EXCEPT !.timers = clearTimeout(@, w.scheduledJobs[taskName].id)]
              ELSE w
  IN [w1 EXCEPT !.tasks = MapDelete(@, taskName)]

\* cancelTask clearing every timer instead of the one of line 70.
cancelTask_ClearsAllTimers(w, taskName) ==
  LET w1 == IF taskName \in DOMAIN w.scheduledJobs
              THEN [w EXCEPT !.timers = {},
                             !.scheduledJobs = MapDelete(@, taskName)]
              ELSE w
  IN [w1 EXCEPT !.tasks = MapDelete(@, taskName)]

\* cancelTask, lines 67-74.
cancelTask(w, taskName) ==
  LET w1 == IF taskName \in DOMAIN w.scheduledJobs
              THEN [w EXCEPT !.timers = clearTimeout(@, w.scheduledJobs[taskName].id),
                             !.scheduledJobs = MapDelete(@, taskName)]
              ELSE w
  IN [w1 EXCEPT !.tasks = MapDelete(@, taskName)]

\* pauseTask, lines 79-86.
pauseTask(w, taskName) ==
  IF taskName \notin DOMAIN w.tasks
    THEN Threw(w, "NotFound")
    ELSE Ok(cancelTask([w EXCEPT !.tasks[taskName].status = "paused"], taskName))

\* resumeTask without the check of lines 93-95: an unknown name is ignored.
resumeTask_IgnoresUnknown(w, taskName, t) ==
  IF taskName \in DOMAIN w.tasks /\ w.tasks[taskName].status = "paused"
    THEN _scheduleNextRun([w EXCEPT !.tasks[taskName].status = "scheduled"], taskName, t)
    ELSE Ok(w)

\* resumeTask, lines 91-100, at time t.
resumeTask(w, taskName, t) ==
  IF taskName \notin DOMAIN w.tasks
    THEN Threw(w, "NotFound")
  ELSE IF w.tasks[taskName].status = "paused"
    THEN _scheduleNextRun([w EXCEPT !.tasks[taskName].status = "scheduled"], taskName, t)
  ELSE Ok(w)

\* _getNextRunTime, lines 191-195.
_getNextRunTime(w, taskName) ==
  IF taskName \notin DOMAIN w.scheduledJobs
    THEN null
    ELSE Some(w.scheduledJobs[taskName].scheduledTime)

\* getTaskStatus, lines 105-116.
getTaskStatus(w, taskName) ==
  IF taskName \notin DOMAIN w.tasks
    THEN null
    ELSE Some([name |-> taskName, status |-> w.tasks[taskName].status,
               nextRun |-> _getNextRunTime(w, taskName)])

\* _executeTask re-arming from the fire time the timer set recorded instead
\* of the time of the dispatch (`new Date()` of lines 125 and 154).
_executeTask_FromScheduledTime(w, taskName, task, threw, t) ==
  IF threw
    THEN [w |-> w, sink |-> <<taskName>>]
  ELSE IF IsOnce(task.interval)
    THEN [w |-> [w EXCEPT !.tasks = MapDelete(@, taskName),
                          !.scheduledJobs = MapDelete(@, taskName)],
          sink |-> <<>>]
  ELSE LET from == IF taskName \in DOMAIN w.scheduledJobs
                     THEN w.scheduledJobs[taskName].scheduledTime
                     ELSE t
           r == _scheduleNextRun(w, taskName, from)
       IN [w |-> r.w, sink |-> IF r.err = "none" THEN <<>> ELSE <<taskName>>]

\* _executeTask without console.error on line 183: the error is dropped.
_executeTask_Silent(w, taskName, task, threw, t) ==
  IF threw
    THEN [w |-> w, sink |-> <<>>]
  ELSE IF IsOnce(task.interval)
    THEN [w |-> [w EXCEPT !.tasks = MapDelete(@, taskName),
                          !.scheduledJobs = MapDelete(@, taskName)],
          sink |-> <<>>]
  ELSE LET r == _scheduleNextRun(w, taskName, t)
       IN [w |-> r.w, sink |-> IF r.err = "none" THEN <<>> ELSE <<taskName>>]

\* _executeTask without line 177: a retired task keeps its timer-set entry.
_executeTask_KeepsJob(w, taskName, task, threw, t) ==
  IF threw
    THEN [w |-> w, sink |-> <<taskName>>]
  ELSE IF IsOnce(task.interval)
    THEN [w |-> [w EXCEPT !.tasks = MapDelete(@, taskName)], sink |-> <<>>]
  ELSE LET r == _scheduleNextRun(w, taskName, t)
       IN [w |-> r.w, sink |-> IF r.err = "none" THEN <<>> ELSE <<taskName>>]

\* _executeTask, lines 170-185, from the return of task.callback() on;
\* `threw` says whether the callback threw.  The result carries the names
\* written to console.error (line 183).
_executeTask(w, taskName, task, threw, t) ==
  IF threw
    THEN [w |-> w, sink |-> <<taskName>>]
  ELSE IF IsOnce(task.interval)
    THEN [w |-> [w EXCEPT !.tasks = MapDelete(@, taskName),
                          !.scheduledJobs = MapDelete(@, taskName)],
          sink |-> <<>>]
  ELSE LET r == _scheduleNextRun(w, taskName, t)
       IN [w |-> r.w, sink |-> IF r.err = "none" THEN <<>> ELSE <<taskName>>]

(* ------------------------------ the state ------------------------------ *)
EmptyMap == [x \in {} |-> x]

\* History, read by the properties only.
\* last: what the last step did: the operation, the name it was given,
\* whether the registry had that name before the step, the error thrown to
\* the caller ("none" when the call returned), how the callback ended (for
\* the end of a dispatch) and what the step wrote to console.error.
\* pausedTasks: for each name on which pauseTask has returned, with no
\* resumeTask or cancelTask returning and no task created for it since, the
\* interval of the task that was paused.
\* invoked: the one-time task objects whose callback has been called and
\* that the registry, an outstanding timer or the dispatch in progress still
\* holds (an object that none of them holds is never called again).
Did(op, name, err) ==
  [op |-> op, name |-> name, had |-> name \in DOMAIN tasks, err |-> err,
   cb |-> "none", sink |-> <<>>]

Init ==
  /\ now = 0
  /\ tasks = EmptyMap
  /\ scheduledJobs = EmptyMap
  /\ timers = {}
  /\ dispatch = null
  /\ nextObj = 1
  /\ pausedTasks = EmptyMap
  /\ invoked = {}
  /\ last = Did("new", "", "none")

\* The task objects the registry, the timers and the dispatch hold.
LiveObjs ==
  {tasks[n].obj : n \in DOMAIN tasks}
    \cup {t.task.obj : t \in timers}
    \cup {dispatch[i].task.obj : i \in DOMAIN dispatch}

\* The step calls the callbacks of the one-time task objects objs.
Invokes(objs) ==
  invoked' = IF invoked \cup objs = {} THEN {} ELSE (invoked \cup objs) \cap LiveObjs'

\* The maps and the timers after a call.
Becomes(w) ==
  /\ tasks' = w.tasks
  /\ scheduledJobs' = w.scheduledJobs
  /\ timers' = w.timers

\* A call is made by the code the event loop runs or, while a callback
\* runs, by that callback: either way the dispatch in progress stays.
CalledFromCallback == UNCHANGED dispatch

\* A registration call: r is its outcome.  Line 23 creates a task object
\* unless the call threw before it.
Registers(op, taskName, r) ==
  LET created == r.err \notin {"AlreadyExists", "NotInFuture"}
  IN /\ created => nextObj <= MaxTasks
     /\ Becomes(r.w)
     /\ nextObj' = IF created THEN nextObj + 1 ELSE nextObj
     /\ pausedTasks' = IF created THEN MapDelete(pausedTasks, taskName) ELSE pausedTasks
     /\ last' = Did(op, taskName, r.err)
     /\ CalledFromCallback
     /\ UNCHANGED now
     /\ Invokes({})

(* ------------------------------ actions -------------------------------- *)
ScheduleTask(taskName, cb, interval) ==
  /\ interval \in UnitIntervals
  /\ Registers("scheduleTask", taskName,
               scheduleTask(World, taskName, cb, interval, "none", now, nextObj))

ScheduleCron(taskName, cb, cronExpression) ==
  /\ cronExpression \in CronExpressions
  /\ Registers("scheduleCron", taskName,
               scheduleCron(World, taskName, cb, cronExpression, now, nextObj))

ScheduleOnce(taskName, cb, date) ==
  /\ date \in Dates
  /\ Registers("scheduleOnce", taskName,
               scheduleOnce(World, taskName, cb, date, now, nextObj))

CancelTask(taskName) ==
  /\ Becomes(cancelTask(World, taskName))
  /\ pausedTasks' = MapDelete(pausedTasks, taskName)
  /\ last' = Did("cancelTask", taskName, "none")
  /\ CalledFromCallback
  /\ UNCHANGED <<now, nextObj>>
  /\ Invokes({})

PauseTask(taskName) ==
  LET r == pauseTask(World, taskName)
  IN /\ Becomes(r.w)
     /\ pausedTasks' = IF r.err = "none"
                         THEN MapSet(pausedTasks, taskName, tasks[taskName].interval)
                         ELSE pausedTasks
     /\ last' = Did("pauseTask", taskName, r.err)
     /\ CalledFromCallback
     /\ UNCHANGED <<now, nextObj>>
     /\ Invokes({})

ResumeTask(taskName) ==
  LET r == resumeTask(World, taskName, now)
  IN /\ Becomes(r.w)
     /\ pausedTasks' = IF r.err = "none" THEN MapDelete(pausedTasks, taskName) ELSE pausedTasks
     /\ last' = Did("resumeTask", taskName, r.err)
     /\ CalledFromCallback
     /\ UNCHANGED <<now, nextObj>>
     /\ Invokes({})

\* The clock advances by a minute.
Tick ==
  /\ now < MaxTime
  /\ now' = now + 1
  /\ last' = Did("tick", "", "none")
  /\ UNCHANGED <<tasks, scheduledJobs, timers, dispatch, nextObj, pausedTasks, invoked>>

\* A due timer fires: the event loop, running nothing else, calls the
\* closure of line 144, which calls task.callback() (line 172).
Fire ==
  /\ dispatch = null
  /\ \E timer \in timers :
       /\ timer.due <= now
       /\ timers' = timers \ {timer}
       /\ UNCHANGED <<tasks, scheduledJobs>>
       /\ dispatch' = Some([name |-> timer.name, task |-> timer.task])
       /\ Invokes(IF IsOnce(timer.task.interval) THEN {timer.task.obj} ELSE {})
       /\ last' = Did("fire", timer.name, "none")
  /\ UNCHANGED <<now, nextObj, pausedTasks>>

\* task.callback() returns or throws and _executeTask runs to its end.
CallbackEnds(threw) ==
  /\ LET d == dispatch[1]
         r == _executeTask(World, d.name, d.task, threw, now)
     IN /\ Becomes(r.w)
        /\ last' = [Did("_executeTask", d.name, "none") EXCEPT
                      !.cb = IF threw THEN "threw" ELSE "returned", !.sink = r.sink]
  /\ dispatch' = null
  /\ UNCHANGED <<now, nextObj, pausedTasks>>
  /\ Invokes({})

CallbackReturns ==
  /\ dispatch # null
  /\ CallbackEnds(FALSE)

CallbackThrows ==
  /\ dispatch # null
  /\ CallbackEnds(TRUE)

Next ==
  \/ \E n \in Names, cb \in Callbacks, i \in UnitIntervals : ScheduleTask(n, cb, i)
  \/ \E n \in Names, cb \in Callbacks, e \in CronExpressions : ScheduleCron(n, cb, e)
  \/ \E n \in Names, cb \in Callbacks, d \in Dates : ScheduleOnce(n, cb, d)
  \/ \E n \in Names : CancelTask(n)
  \/ \E n \in Names : PauseTask(n)
  \/ \E n \in Names : ResumeTask(n)
  \/ Tick
  \/ Fire
  \/ CallbackReturns
  \/ CallbackThrows

Spec == Init /\ [][Next]_vars

\* The scheduler used with one name while the clock runs a minute longer:
\* a timer armed at MaxTime for a minute later fires, and a timer can fire
\* a minute late.
TickDeep ==
  /\ now < MaxTime + 1
  /\ now' = now + 1
  /\ last' = Did("tick", "", "none")
  /\ UNCHANGED <<tasks, scheduledJobs, timers, dispatch, nextObj, pausedTasks, invoked>>

NextDeep ==
  \/ \E cb \in Callbacks, i \in UnitIntervals : ScheduleTask("a", cb, i)
  \/ \E cb \in Callbacks, e \in CronExpressions : ScheduleCron("a", cb, e)
  \/ \E cb \in Callbacks, d \in Dates : ScheduleOnce("a", cb, d)
  \/ CancelTask("a")
  \/ PauseTask("a")
  \/ ResumeTask("a")
  \/ TickDeep
  \/ Fire
  \/ CallbackReturns
  \/ CallbackThrows

SpecDeep == Init /\ [][NextDeep]_vars

(* ---------------------------- properties ------------------------------- *)
\* The outstanding timers of a name, in a set of timers.
TimersOf(ts, name) == {t \in ts : t.name = name}

\* An interval the arming step accepts.
Armable(interval) == NextRunOf(interval, 0).err = "none"

\* Recurring-by-unit, with a unit of the Interval type (part_001, line 21).
Recurring(interval) ==
  /\ DOMAIN interval = {"unit", "value"}
  /\ interval.unit \in {"minutes", "hours", "days"}

\* The length of a recurring interval, in minutes.
Length(interval) ==
  interval.value * (CASE interval.unit = "minutes" -> 1
                      [] interval.unit = "hours" -> MinutesPerHour
                      [] interval.unit = "days" -> MinutesPerDay)

RegistrationOps == {"scheduleTask", "scheduleCron", "scheduleOnce"}

\* C1: once pauseTask(name) has returned for a scheduled task, and until the
\* task is resumed (or cancelled), getTaskStatus(name) is a record with
\* status 'paused' and nextRun null, and no dispatch of the name begins.
C1_PausedTaskIsKeptAndSilent ==
  [][\A n \in Names :
       /\ (n \in DOMAIN pausedTasks' /\ Armable(pausedTasks'[n])) =>
             getTaskStatus(World', n) =
               Some([name |-> n, status |-> "paused", nextRun |-> null])
       /\ (n \in DOMAIN pausedTasks /\ Armable(pausedTasks[n])
             /\ dispatch = null /\ dispatch' # null) =>
             dispatch'[1].name # n]_vars

\* C2: resumeTask(name) on a recurring task that was paused returns without
\* error and leaves the task scheduled with exactly one outstanding timer,
\* the one the timer set records, whose fire time is the time of the resume
\* plus the interval.
C2_ResumeAfterPauseRearms ==
  [][\A n \in Names :
       (/\ n \in DOMAIN pausedTasks
        /\ Recurring(pausedTasks[n])
        /\ last'.op = "resumeTask"
        /\ last'.name = n) =>
          /\ last'.err = "none"
          /\ n \in DOMAIN tasks'
          /\ tasks'[n].status = "scheduled"
          /\ n \in DOMAIN scheduledJobs'
          /\ scheduledJobs'[n].scheduledTime = now + Length(pausedTasks[n])
          /\ \E t \in timers' :
                /\ t.id = scheduledJobs'[n].id
                /\ TimersOf(timers', n) = {t}]_vars

\* The dispatch in progress is of a task that is still the registered one.
DispatchOfRegistered ==
  /\ dispatch # null
  /\ dispatch[1].name \in DOMAIN tasks
  /\ tasks[dispatch[1].name].obj = dispatch[1].task.obj
  /\ tasks[dispatch[1].name].status = "scheduled"

\* C3: when the callback of a recurring or cron task throws, the dispatch
\* ends with the task registered, scheduled, and a newly armed timer
\* outstanding for it and recorded in the timer set.
C3_ThrowingTaskIsRearmed ==
  [][(/\ DispatchOfRegistered
      /\ ~IsOnce(dispatch[1].task.interval)
      /\ last'.op = "_executeTask"
      /\ last'.cb = "threw") =>
        LET n == dispatch[1].name
        IN /\ n \in DOMAIN tasks'
           /\ tasks'[n].status = "scheduled"
           /\ n \in DOMAIN scheduledJobs'
           /\ \E t \in timers' \ timers :
                 t.name = n /\ t.id = scheduledJobs'[n].id]_vars

\* C4: when the dispatch of a one-time task ends, whether its callback
\* returned or threw, the name is in neither the registry nor the timer set.
C4_OneTimeTaskIsRetired ==
  [][(/\ DispatchOfRegistered
      /\ IsOnce(dispatch[1].task.interval)
      /\ last'.op = "_executeTask") =>
        /\ dispatch[1].name \notin DOMAIN tasks'
        /\ dispatch[1].name \notin DOMAIN scheduledJobs'
        /\ getTaskStatus(World', dispatch[1].name) = null]_vars

\* C5: while no dispatch is in progress, every scheduled task of the
\* registry (with an interval the arming step accepts) has exactly one
\* outstanding timer.
C5_ScheduledTaskHasOneTimer ==
  dispatch = null =>
    \A n \in DOMAIN tasks :
      (tasks[n].status = "scheduled" /\ Armable(tasks[n].interval)) =>
        Cardinality(TimersOf(timers, n)) = 1

\* C6: scheduleTask, scheduleCron and scheduleOnce (its date being in the
\* future) called with a name the registry has throw, and leave the
\* registry, the timer set and the outstanding timers as they were.
C6_DuplicateNameIsRejected ==
  [][(/\ last'.op \in RegistrationOps
      /\ last'.name \in DOMAIN tasks
      /\ last'.err # "NotInFuture") =>
        /\ last'.err = "AlreadyExists"
        /\ UNCHANGED <<tasks, scheduledJobs, timers>>]_vars

\* C6 happens: a registration was rejected for a name whose task is
\* scheduled with an outstanding timer.
C6_Witness ==
  /\ last.op \in RegistrationOps
  /\ last.err = "AlreadyExists"
  /\ last.name \in DOMAIN scheduledJobs
  /\ TimersOf(timers, last.name) # {}

\* C7: scheduleOnce with a date not after the current time throws, and
\* leaves the registry, the timer set and the outstanding timers unchanged.
C7_PastDateIsRejected ==
  [][\A n \in Names, cb \in Callbacks, d \in Dates :
       (d <= now /\ ScheduleOnce(n, cb, d)) =>
         /\ last'.err = "NotInFuture"
         /\ UNCHANGED <<tasks, scheduledJobs, timers>>]_vars

\* C7 happens: scheduleOnce threw for its date, the name being free, while
\* another task is registered.
C7_Witness ==
  /\ last.op = "scheduleOnce"
  /\ last.err = "NotInFuture"
  /\ ~last.had
  /\ last.name \notin DOMAIN tasks
  /\ DOMAIN tasks # {}

\* C8: cancelTask(name) returns without error; after it the name is in
\* neither the registry nor the timer set, getTaskStatus(name) is null, and
\* a second cancelTask(name) changes nothing.
C8_CancelRemovesAndIsIdempotent ==
  last.op = "cancelTask" =>
    /\ last.err = "none"
    /\ last.name \notin DOMAIN tasks
    /\ last.name \notin DOMAIN scheduledJobs
    /\ getTaskStatus(World, last.name) = null
    /\ cancelTask(World, last.name) = World

\* C8 happens: cancelTask was called for a name the registry had, while
\* another task stays registered.
C8_Witness ==
  /\ last.op = "cancelTask"
  /\ last.had
  /\ DOMAIN tasks # {}

\* C9: once cancelTask(name) has returned, no outstanding timer holds the
\* task that was cancelled, so its callback cannot be invoked any more.
C9_CancelledTaskHasNoTimer ==
  [][\A n \in DOMAIN tasks :
       (last'.op = "cancelTask" /\ last'.name = n) =>
         \A t \in timers' : t.task.obj # tasks[n].obj]_vars

\* C10: a recurring or cron task leaves the registry only by a cancelTask
\* call for its name.
C10_OnlyCancelRemoves ==
  [][\A n \in DOMAIN tasks :
       (/\ ~IsOnce(tasks[n].interval)
        /\ Armable(tasks[n].interval)
        /\ n \notin DOMAIN tasks') =>
          (last'.op = "cancelTask" /\ last'.name = n)]_vars

\* The entry of a name in a map, null when the map has no such key.
Entry(map, name) == IF name \in DOMAIN map THEN Some(map[name]) ELSE null

\* C11: while no dispatch is in progress, getTaskStatus(name) is null iff
\* the name is not registered; otherwise nextRun is null exactly when no
\* timer is outstanding for the name, and else is the fire time recorded
\* for a timer that is outstanding (never one that has fired).
C11_NextRunIsOfOutstandingTimer ==
  dispatch = null =>
    \A n \in Names :
      /\ (getTaskStatus(World, n) = null) <=> (n \notin DOMAIN tasks)
      /\ n \in DOMAIN tasks =>
           LET nextRun == getTaskStatus(World, n)[1].nextRun
           IN /\ (nextRun = null) <=> (TimersOf(timers, n) = {})
              /\ nextRun # null =>
                   \E t \in TimersOf(timers, n) :
                      /\ t.id = scheduledJobs[n].id
                      /\ nextRun = Some(scheduledJobs[n].scheduledTime)

\* C13: pauseTask and resumeTask called with a name the registry does not
\* have throw not-found and leave the registry, the timer set and the
\* outstanding timers unchanged.
C13_UnknownNameIsRejected ==
  [][(/\ last'.op \in {"pauseTask", "resumeTask"}
      /\ last'.name \notin DOMAIN tasks) =>
        /\ last'.err = "NotFound"
        /\ UNCHANGED <<tasks, scheduledJobs, timers>>]_vars

\* C13 happens: resumeTask threw not-found while another task is armed.
C13_Witness ==
  /\ last.op = "resumeTask"
  /\ last.err = "NotFound"
  /\ ~last.had
  /\ timers # {}

\* C14: when a callback throws, the dispatch ends without an error for its
\* caller and console.error has been called exactly once, with the name of
\* the task dispatched.
C14_CallbackErrorIsReportedOnce ==
  (last.op = "_executeTask" /\ last.cb = "threw") =>
    /\ last.err = "none"
    /\ last.sink = <<last.name>>
    /\ dispatch = null

\* C14 happens: a callback threw.
C14_Witness ==
  /\ last.op = "_executeTask"
  /\ last.cb = "threw"
  /\ last.name \in Names

\* C16: after every step that arms a timer for a name, that timer is the
\* only one outstanding for the name and is the one the timer set records.
C16_ArmingLeavesOneTimer ==
  [][\A n \in Names :
       (\E t \in timers' \ timers : t.name = n) =>
          /\ n \in DOMAIN scheduledJobs'
          /\ \E t \in timers' :
                /\ TimersOf(timers', n) = {t}
                /\ scheduledJobs'[n].id = t.id]_vars

\* C17: a scheduleTask or scheduleCron call whose arming step throws leaves
\* the registry, the timer set and the outstanding timers as they were.
C17_FailedArmingRegistersNothing ==
  [][(/\ last'.op \in {"scheduleTask", "scheduleCron"}
      /\ last'.err \in {"UnsupportedUnit", "InvalidInterval", "NextThrew"}) =>
        UNCHANGED <<tasks, scheduledJobs, timers>>]_vars

\* C19: a step addressed to a name leaves the registry entry (with its
\* status), the timer-set entry and the outstanding timers of every other
\* name unchanged.
C19_OtherNamesAreUntouched ==
  [][\A m \in Names \ {last'.name} :
       /\ Entry(tasks', m) = Entry(tasks, m)
       /\ Entry(scheduledJobs', m) = Entry(scheduledJobs, m)
       /\ TimersOf(timers', m) = TimersOf(timers, m)]_vars

\* C19 happens: cancelTask removed a task while a task of another name is
\* registered with an outstanding timer.
C19_Witness ==
  /\ last.op = "cancelTask"
  /\ last.had
  /\ \E m \in DOMAIN tasks : m # last.name /\ TimersOf(timers, m) # {}

\* C20: every name of the timer set is a name of the registry.
C20_JobsAreOfRegisteredTasks ==
  DOMAIN scheduledJobs \subseteq DOMAIN tasks

\* C20 happens: a one-time task, registered and armed, has been retired by
\* its dispatch.
C20_Witness ==
  /\ last.op = "_executeTask"
  /\ last.cb = "returned"
  /\ last.had
  /\ last.name \notin DOMAIN tasks

\* C12: for a recurring task of interval d, the fire time recorded by a
\* registration at time t is t + d, and the fire time recorded by a dispatch
\* at time t' whose callback returns is t' + d, however late the dispatch.
C12_FireTimeIsNowPlusInterval ==
  [][\A n \in Names :
       /\ (/\ last'.op = "scheduleTask"
           /\ last'.name = n
           /\ last'.err = "none"
           /\ Recurring(tasks'[n].interval)) =>
             /\ n \in DOMAIN scheduledJobs'
             /\ scheduledJobs'[n].scheduledTime = now + Length(tasks'[n].interval)
       /\ (/\ DispatchOfRegistered
           /\ dispatch[1].name = n
           /\ Recurring(dispatch[1].task.interval)
           /\ last'.op = "_executeTask"
           /\ last'.cb = "returned") =>
             /\ n \in DOMAIN scheduledJobs'
             /\ scheduledJobs'[n].scheduledTime =
                  now + Length(dispatch[1].task.interval)]_vars

\* C12 happens: a dispatch at the last minute of the clock, which a timer
\* armed by a registration reaches only late or on its last chance, has
\* returned and re-armed the recurring task.
C12_Witness ==
  /\ last.op = "_executeTask"
  /\ last.cb = "returned"
  /\ now = MaxTime + 1
  /\ \E n \in DOMAIN tasks \cap DOMAIN scheduledJobs :
        /\ n = last.name
        /\ tasks[n].interval = [unit |-> "minutes", value |-> 1]
        /\ tasks[n].obj = 1
        /\ scheduledJobs[n].scheduledTime = now + 1

\* C15: while the callback of a registered task runs, the dispatch of
\* another registered task whose timer is due can begin.
C15_OtherDispatchCanBegin ==
  \A t \in timers :
    (/\ DispatchOfRegistered
     /\ t.name # dispatch[1].name
     /\ t.due <= now
     /\ t.name \in DOMAIN tasks
     /\ tasks[t.name].obj = t.task.obj) =>
       ENABLED (Fire /\ dispatch' = Some([name |-> t.name, task |-> t.task]))

\* C18: the callback of a one-time task object is called at most once: no
\* dispatch begins for a one-time task object whose callback has been
\* called before.
C18_OneTimeCallbackRunsOnce ==
  [][(/\ dispatch = null
      /\ dispatch' # null
      /\ IsOnce(dispatch'[1].task.interval)) =>
        dispatch'[1].task.obj \notin invoked]_vars

====
